---- MODULE Spec2Model ----
(***************************************************************************)
(* TermMusic (src/terminal_music_player.py): the track library, the search *)
(* filter, the playback state machine of TerminalMusicPlayer and its       *)
(* update_loop monitor thread.                                             *)
(*                                                                         *)
(* Strings are tuples of one-character strings, so that lower(), the       *)
(* substring test of the search and the extension test of the scan are     *)
(* computed character by character as the Python code computes them.       *)
(* List indexes are 0-based as in the source: At(list, i) is list[i].      *)
(* A track dict is held in the state by its "path", the key of a track in  *)
(* a library snapshot and the only field the code compares tracks by;      *)
(* track_of(path) is the dict with its text fields.                        *)
(*                                                                         *)
(* Spec        every handler and every monitor tick is one atomic step     *)
(*             (the sequential meaning of each handler).                   *)
(* SpecThreads the Tk main thread and the update_loop thread interleave at *)
(*             statement granularity, as CPython threads do.               *)
(***************************************************************************)
EXTENDS Integers, Sequences, FiniteSets, TLC

VARIABLES
    music_library,        \* self.music_library
    filtered_library,     \* self.filtered_library
    current_track,        \* self.current_track (None or a track)
    current_track_index,  \* self.current_track_index
    playing,              \* self.playing
    paused,               \* self.paused
    volume,               \* self.volume
    search_var,           \* self.search_var (text of the search entry)
    library_paths,        \* self.library_paths
    audio_enabled,        \* self.audio_enabled (and PYGAME_AVAILABLE)
    mixer,                \* pygame.mixer.music: idle (nothing loaded) | loaded |
                          \* playing | paused | stopped (by stop()) | ended (the
                          \* stream played to its end) | quit (pygame.mixer.quit())
    last,                 \* observation: the last handler run, the index, track and
                          \* status it started from, the calls it made, the backend
                          \* call that failed in it, whether it raised out of the
                          \* handler
    ui,                   \* SpecThreads: the Tk main thread's position and locals
    mon                   \* SpecThreads: the update_loop thread's position and locals

vars == <<music_library, filtered_library, current_track, current_track_index,
          playing, paused, volume, search_var, library_paths, audio_enabled,
          mixer, last, ui, mon>>

(***************************************************************************)
(* Bounds of the model.                                                    *)
(***************************************************************************)
\* Number of entries of the music folder that the directory walk yields.
MaxFiles == 4

\* SpecThreads: number of events the main thread handles in a run.
MaxEvents == 3

\* Length of the call sequences run in both modes (SimulatedMode, BackendMode).
MaxCalls == 3

(***************************************************************************)
(* Python values and string functions.                                     *)
(***************************************************************************)
None == "None"

At(list, i) == list[i + 1]

UpperChars == <<"A","B","C","D","E","F","G","H","I","J","K","L","M","N","O","P","Q","R","S","T","U","V","W","X","Y","Z">>
LowerChars == <<"a","b","c","d","e","f","g","h","i","j","k","l","m","n","o","p","q","r","s","t","u","v","w","x","y","z">>

\* str.lower() on one character
LowerChar(c) ==
    IF \E k \in 1..26 : UpperChars[k] = c
    THEN LowerChars[CHOOSE k \in 1..26 : UpperChars[k] = c]
    ELSE c

\* str.lower()
lower(s) == [k \in 1..Len(s) |-> LowerChar(s[k])]

\* Python's  sub in s
Contains(sub, s) ==
    \E k \in 0..(Len(s) - Len(sub)) : SubSeq(s, k + 1, k + Len(sub)) = sub

\* str.endswith
endswith(s, suffix) ==
    /\ Len(suffix) <= Len(s)
    /\ SubSeq(s, Len(s) - Len(suffix) + 1, Len(s)) = suffix

\* os.path.splitext(file_name)[0]: the name up to its last dot, a leading dot
\* not counting as the start of an extension
splitext_stem(file_name) ==
    LET dots == {k \in 2..Len(file_name) : file_name[k] = "."}
    IN  IF dots = {} THEN file_name
        ELSE SubSeq(file_name, 1, (CHOOSE k \in dots : \A j \in dots : j <= k) - 1)

(***************************************************************************)
(* load_sample_data: the four sample tracks.                               *)
(***************************************************************************)
sample_tracks == <<
    [path |-> "sample/terminal_blues.mp3",
     title |-> <<"T","e","r","m","i","n","a","l"," ","B","l","u","e","s">>,
     artist |-> <<"C","o","d","e"," ","M","o","n","k","e","y","s">>,
     album |-> <<"D","i","g","i","t","a","l"," ","D","r","e","a","m","s">>,
     time |-> <<"3",":","4","5">>],
    [path |-> "sample/matrix_rain.mp3",
     title |-> <<"M","a","t","r","i","x"," ","R","a","i","n">>,
     artist |-> <<"C","y","b","e","r"," ","C","o","l","l","e","c","t","i","v","e">>,
     album |-> <<"G","r","e","e","n"," ","S","c","r","e","e","n">>,
     time |-> <<"4",":","1","2">>],
    [path |-> "sample/command_line_love.mp3",
     title |-> <<"C","o","m","m","a","n","d"," ","L","i","n","e"," ","L","o","v","e">>,
     artist |-> <<"T","e","r","m","i","n","a","l"," ","R","o","m","a","n","c","e">>,
     album |-> <<"C","o","n","s","o","l","e"," ","S","e","s","s","i","o","n","s">>,
     time |-> <<"2",":","5","8">>],
    [path |-> "sample/digital_heartbeat.mp3",
     title |-> <<"D","i","g","i","t","a","l"," ","H","e","a","r","t","b","e","a","t">>,
     artist |-> <<"B","i","n","a","r","y"," ","P","o","e","t","s">>,
     album |-> <<"A","l","g","o","r","i","t","h","m","i","c"," ","S","o","u","l">>,
     time |-> <<"4",":","3","3">>] >>

(***************************************************************************)
(* The file system the scan sees.  A file has its path, its name and the   *)
(* result of mutagen's File(): tags is empty when the file has no tag      *)
(* block, else the tag map (a function from tag keys to text); length is   *)
(* int(info.length), the duration in whole seconds, 0 when the file gives  *)
(* none.                                                                   *)
(***************************************************************************)
Min(a, b) == IF a < b THEN a ELSE b

Unknown_Artist == <<"U","n","k","n","o","w","n"," ","A","r","t","i","s","t">>
Unknown_Album == <<"U","n","k","n","o","w","n"," ","A","l","b","u","m">>

MusicDirFiles == <<
    [path |-> "music/01 rain.MP3",
     name |-> <<"0","1"," ","r","a","i","n",".","M","P","3">>,
     tags |-> [TIT2 |-> <<"R","a","i","n">>, TPE1 |-> <<"P","r","i","n","c","e">>,
               TALB |-> <<"P","u","r","p","l","e">>],
     length |-> 215],
    [path |-> "music/cover.jpg",
     name |-> <<"c","o","v","e","r",".","j","p","g">>,
     tags |-> << >>, length |-> 0],
    [path |-> "music/intro.flac",
     name |-> <<"i","n","t","r","o",".","f","l","a","c">>,
     tags |-> << >>, length |-> 3725],
    [path |-> "music/sub/b-side.m4a",
     name |-> <<"b","-","s","i","d","e",".","m","4","a">>,
     tags |-> [TALB |-> <<"V","a","r","i","o","u","s">>],
     length |-> 59],
    [path |-> "music/sub/outro.ogg",
     name |-> <<"o","u","t","r","o",".","o","g","g">>,
     tags |-> [TITLE |-> <<"O","u","t","r","o">>, ARTIST |-> <<"P","r","i","n","c","e">>],
     length |-> 0],
    [path |-> "music/sub/live.wav",
     name |-> <<"l","i","v","e",".","w","a","v">>,
     tags |-> << >>, length |-> 90061] >>

\* os.walk(folder_path), flattened to the files in the order they are visited;
\* the folder "empty" exists and holds no file, the folder "gone" does not exist
walk(folder_path) ==
    IF folder_path = "music"
    THEN SubSeq(MusicDirFiles, 1, Min(MaxFiles, Len(MusicDirFiles)))
    ELSE << >>

\* the folders the directory dialog of add_music_folder returns
Folders == {"music", "gone"}

\* os.path.exists on a folder
folder_exists(folder_path) == folder_path \in {"music", "empty"}

\* os.path.exists on a track's path: the sample paths name no file
path_exists(track_path) ==
    \E k \in 1..Len(MusicDirFiles) : MusicDirFiles[k].path = track_path

supported_formats == { <<".","m","p","3">>, <<".","f","l","a","c">>, <<".","o","g","g">>,
                       <<".","m","4","a">>, <<".","w","a","v">> }

\* audio_file.tags.get(primary)[0] if primary in tags else tags.get(secondary)[0]
\* if secondary in tags else default
tag_or(tags, primary, secondary, default) ==
    IF primary \in DOMAIN tags THEN tags[primary]
    ELSE IF secondary \in DOMAIN tags THEN tags[secondary]
    ELSE default

Digits == <<"0","1","2","3","4","5","6","7","8","9">>

\* str(n) for a natural number n
RECURSIVE str(_)
str(n) == IF n < 10 THEN <<Digits[n + 1]>> ELSE str(n \div 10) \o <<Digits[(n % 10) + 1]>>

\* "%02d" % n
two_digits(n) == IF n < 10 THEN <<"0">> \o str(n) ELSE str(n)

\* str(timedelta(seconds=d)): "H:MM:SS", with "D day, " or "D days, " before it
\* from one day on
timedelta_str(d) ==
    LET days == d \div 86400
        rest == d % 86400
        clock == str(rest \div 3600) \o <<":">> \o two_digits((rest % 3600) \div 60)
                     \o <<":">> \o two_digits(rest % 60)
    IN  IF days = 0 THEN clock
        ELSE IF days = 1 THEN str(days) \o <<" ","d","a","y",","," ">> \o clock
        ELSE str(days) \o <<" ","d","a","y","s",","," ">> \o clock

\* the slice text[2:7]
slice_2_7(text) == SubSeq(text, 3, Min(7, Len(text)))

\* the "time" field, lines 712-715: "0:00" unless the file gives a length
duration_text(length) ==
    IF length # 0 THEN slice_2_7(timedelta_str(length)) ELSE <<"0",":","0","0">>

extract_metadata(file) ==
    IF file.tags = << >>
    THEN [path |-> file.path, title |-> splitext_stem(file.name),
          artist |-> Unknown_Artist, album |-> Unknown_Album,
          time |-> duration_text(file.length)]
    ELSE [path |-> file.path,
          title |-> tag_or(file.tags, "TIT2", "TITLE", file.name),
          artist |-> tag_or(file.tags, "TPE1", "ARTIST", Unknown_Artist),
          album |-> tag_or(file.tags, "TALB", "ALBUM", Unknown_Album),
          time |-> duration_text(file.length)]

\* the loop of scan_folder over the walked files
\* scan_tracks comparing the extension as it is spelled
RECURSIVE scan_tracks_case_sensitive(_)
scan_tracks_case_sensitive(files) ==
    IF files = << >> THEN << >>
    ELSE LET file == Head(files)
             rest == scan_tracks_case_sensitive(Tail(files))
         IN  IF \E ext \in supported_formats : endswith(file.name, ext)
             THEN <<extract_metadata(file)>> \o rest
             ELSE rest

RECURSIVE scan_tracks(_)
scan_tracks(files) ==
    IF files = << >> THEN << >>
    ELSE LET file == Head(files)
             rest == scan_tracks(Tail(files))
         IN  IF \E ext \in supported_formats : endswith(lower(file.name), ext)
             THEN <<extract_metadata(file)>> \o rest
             ELSE rest

\* every track dict the program can build
Catalog ==
    {sample_tracks[k] : k \in 1..Len(sample_tracks)}
        \cup {extract_metadata(MusicDirFiles[k]) : k \in 1..Len(MusicDirFiles)}

\* the track dict whose "path" is path
track_of(path) == CHOOSE track \in Catalog : track.path = path

\* a list of track dicts as the state holds it
paths_of(tracks) == [k \in 1..Len(tracks) |-> tracks[k].path]

(***************************************************************************)
(* The search filter of on_search_change.                                  *)
(***************************************************************************)
\* the filter looking at the title only
track_matches_title_only(search_term, track) ==
    Contains(search_term, lower(track.title))

track_matches(search_term, track) ==
    \/ Contains(search_term, lower(track.title))
    \/ Contains(search_term, lower(track.artist))
    \/ Contains(search_term, lower(track.album))

RECURSIVE select_tracks(_, _)
select_tracks(search_term, library) ==
    IF library = << >> THEN << >>
    ELSE IF track_matches(search_term, track_of(Head(library)))
         THEN <<Head(library)>> \o select_tracks(search_term, Tail(library))
         ELSE select_tracks(search_term, Tail(library))

\* the view on_search_change computes from the entry's text
search_result(text, library) ==
    LET search_term == lower(text)
    IN  IF search_term = << >> THEN library
        ELSE select_tracks(search_term, library)

\* texts typed into the search entry
Queries == { << >>, <<"r","a","i","n">>, <<"C","O">>, <<" ">> }


(***************************************************************************)
(* The application object.  A handler is an operator from the object's     *)
(* fields s (with the log of the calls made so far) to the fields after    *)
(* the handler.  fail names the backend call that raises during the        *)
(* handler, or "none".                                                     *)
(***************************************************************************)
\* the backend call that raises during a handler, among those it can make
PlayFailures == {"none", "load", "play"}
ToggleFailures == {"none", "load", "play", "pause", "unpause"}
StopFailures == {"none", "stop"}
VolumeFailures == {"none", "set_volume"}

Call(s, name) == [s EXCEPT !.calls = Append(@, name)]

\* the backend call name raises: the handler's except clause is entered
Raise(s, name) == [Call(s, name) EXCEPT !.failed = name]

\* play_track stopping the playback when it is given no track
play_track_none_stops(s, track, fail) ==
    LET s0 == Call(s, "play_track")
    IN  IF track = None THEN [s0 EXCEPT !.playing = FALSE, !.paused = FALSE]
        ELSE LET s1 == [s0 EXCEPT !.current_track = track]
             IN  IF s1.audio_enabled /\ path_exists(track)
                 THEN IF fail = "load" THEN Raise(s1, "load")
                      ELSE LET s2 == [Call(s1, "load") EXCEPT !.mixer = "loaded"]
                           IN  IF fail = "play" THEN Raise(s2, "play")
                               ELSE [Call(s2, "play") EXCEPT !.mixer = "playing",
                                                   !.playing = TRUE,
                                                   !.paused = FALSE]
                 ELSE [s1 EXCEPT !.playing = TRUE, !.paused = FALSE]

\* play_track leaving the paused flag as it is
play_track_keeps_paused(s, track, fail) ==
    LET s0 == Call(s, "play_track")
    IN  IF track = None THEN s0
        ELSE LET s1 == [s0 EXCEPT !.current_track = track]
             IN  IF s1.audio_enabled /\ path_exists(track)
                 THEN IF fail = "load" THEN Raise(s1, "load")
                      ELSE LET s2 == [Call(s1, "load") EXCEPT !.mixer = "loaded"]
                           IN  IF fail = "play" THEN Raise(s2, "play")
                               ELSE [Call(s2, "play") EXCEPT !.mixer = "playing",
                                                   !.playing = TRUE]
                 ELSE [s1 EXCEPT !.playing = TRUE]

\* play_track, lines 817-847
play_track(s, track, fail) ==
    LET s0 == Call(s, "play_track")
    IN  IF track = None THEN s0
        ELSE LET s1 == [s0 EXCEPT !.current_track = track]
             IN  IF s1.audio_enabled /\ path_exists(track)
                 THEN IF fail = "load" THEN Raise(s1, "load")
                      ELSE LET s2 == [Call(s1, "load") EXCEPT !.mixer = "loaded"]
                           IN  IF fail = "play" THEN Raise(s2, "play")
                               ELSE [Call(s2, "play") EXCEPT !.mixer = "playing",
                                                   !.playing = TRUE,
                                                   !.paused = FALSE]
                 ELSE [s1 EXCEPT !.playing = TRUE, !.paused = FALSE]

\* toggle_playback restarting the track when Paused instead of resuming it
toggle_playback_restarts(s, fail) ==
    LET s0 == Call(s, "toggle_playback")
    IN  IF s0.current_track = None
        THEN IF s0.filtered_library # << >>
             THEN [play_track(s0, At(s0.filtered_library, 0), fail)
                       EXCEPT !.current_track_index = 0]
             ELSE s0
        ELSE IF s0.audio_enabled
        THEN IF s0.playing /\ ~s0.paused
             THEN IF fail = "pause" THEN Raise(s0, "pause")
                  ELSE [Call(s0, "pause") EXCEPT !.mixer = IF @ = "playing" THEN "paused" ELSE @,
                                      !.paused = TRUE]
             ELSE play_track(s0, s0.current_track, fail)
        ELSE IF s0.playing /\ ~s0.paused
             THEN [s0 EXCEPT !.paused = TRUE]
             ELSE play_track(s0, s0.current_track, fail)

\* toggle_playback playing the first track without recording its index
toggle_playback_keeps_index(s, fail) ==
    LET s0 == Call(s, "toggle_playback")
    IN  IF s0.current_track = None
        THEN IF s0.filtered_library # << >>
             THEN play_track(s0, At(s0.filtered_library, 0), fail)
             ELSE s0
        ELSE toggle_playback_restarts(s, fail)

\* toggle_playback setting the paused flag before the backend call, so that
\* a failed pause or unpause leaves the flag changed
toggle_playback_flags_first(s, fail) ==
    LET s0 == Call(s, "toggle_playback")
    IN  IF s0.current_track = None
        THEN IF s0.filtered_library # << >>
             THEN [play_track(s0, At(s0.filtered_library, 0), fail)
                       EXCEPT !.current_track_index = 0]
             ELSE s0
        ELSE IF s0.audio_enabled
        THEN IF s0.playing /\ ~s0.paused
             THEN IF fail = "pause" THEN [Raise(s0, "pause") EXCEPT !.paused = TRUE]
                  ELSE [Call(s0, "pause") EXCEPT !.mixer = IF @ = "playing" THEN "paused" ELSE @,
                                      !.paused = TRUE]
             ELSE IF s0.paused
             THEN IF fail = "unpause" THEN [Raise(s0, "unpause") EXCEPT !.paused = FALSE]
                  ELSE [Call(s0, "unpause") EXCEPT !.mixer = IF @ = "paused" THEN "playing" ELSE @,
                                      !.paused = FALSE]
             ELSE play_track(s0, s0.current_track, fail)
        ELSE IF s0.playing /\ ~s0.paused
             THEN [s0 EXCEPT !.paused = TRUE]
             ELSE [s0 EXCEPT !.paused = FALSE]

\* toggle_playback, lines 849-884
toggle_playback(s, fail) ==
    LET s0 == Call(s, "toggle_playback")
    IN  IF s0.current_track = None
        THEN IF s0.filtered_library # << >>
             THEN [play_track(s0, At(s0.filtered_library, 0), fail)
                       EXCEPT !.current_track_index = 0]
             ELSE s0
        ELSE IF s0.audio_enabled
        THEN IF s0.playing /\ ~s0.paused
             THEN IF fail = "pause" THEN Raise(s0, "pause")
                  ELSE [Call(s0, "pause") EXCEPT !.mixer = IF @ = "playing" THEN "paused" ELSE @,
                                      !.paused = TRUE]
             ELSE IF s0.paused
             THEN IF fail = "unpause" THEN Raise(s0, "unpause")
                  ELSE [Call(s0, "unpause") EXCEPT !.mixer = IF @ = "paused" THEN "playing" ELSE @,
                                      !.paused = FALSE]
             ELSE play_track(s0, s0.current_track, fail)
        ELSE IF s0.playing /\ ~s0.paused
             THEN [s0 EXCEPT !.paused = TRUE]
             ELSE [s0 EXCEPT !.paused = FALSE]

\* stop_playback also forgetting the current track
stop_playback_forgets_track(s, fail) ==
    LET s0 == Call(s, "stop_playback")
        s1 == IF s0.audio_enabled
              THEN IF fail = "stop" THEN Raise(s0, "stop")
                   ELSE [Call(s0, "stop") EXCEPT !.mixer = IF @ \in {"playing", "paused"} THEN "stopped" ELSE @]
              ELSE s0
    IN  [s1 EXCEPT !.playing = FALSE, !.paused = FALSE,
                   !.current_track = None, !.current_track_index = -1]

\* stop_playback, lines 886-898
stop_playback(s, fail) ==
    LET s0 == Call(s, "stop_playback")
        s1 == IF s0.audio_enabled
              THEN IF fail = "stop" THEN Raise(s0, "stop")
                   ELSE [Call(s0, "stop") EXCEPT !.mixer = IF @ \in {"playing", "paused"} THEN "stopped" ELSE @]
              ELSE s0
    IN  [s1 EXCEPT !.playing = FALSE, !.paused = FALSE]

\* previous_track wrapping to the first track instead of the last
previous_track_wraps_to_first(s, fail) ==
    LET s0 == Call(s, "previous_track")
    IN  IF s0.filtered_library = << >> THEN s0
        ELSE LET index == IF s0.current_track_index > 0
                          THEN s0.current_track_index - 1
                          ELSE 0
                 s1 == [s0 EXCEPT !.current_track_index = index]
             IN  IF index >= Len(s1.filtered_library)
                 THEN [s1 EXCEPT !.raised = TRUE]
                 ELSE play_track(s1, At(s1.filtered_library, index), fail)

\* previous_track unsetting the index on an empty view
previous_track_resets_on_empty(s, fail) ==
    LET s0 == Call(s, "previous_track")
    IN  IF s0.filtered_library = << >> THEN [s0 EXCEPT !.current_track_index = -1]
        ELSE LET index == IF s0.current_track_index > 0
                          THEN s0.current_track_index - 1
                          ELSE Len(s0.filtered_library) - 1
                 s1 == [s0 EXCEPT !.current_track_index = index]
             IN  IF index >= Len(s1.filtered_library)
                 THEN [s1 EXCEPT !.raised = TRUE]
                 ELSE play_track(s1, At(s1.filtered_library, index), fail)

\* previous_track, lines 900-914
previous_track(s, fail) ==
    LET s0 == Call(s, "previous_track")
    IN  IF s0.filtered_library = << >> THEN s0
        ELSE LET index == IF s0.current_track_index > 0
                          THEN s0.current_track_index - 1
                          ELSE Len(s0.filtered_library) - 1
                 s1 == [s0 EXCEPT !.current_track_index = index]
             IN  IF index >= Len(s1.filtered_library)
                 THEN [s1 EXCEPT !.raised = TRUE]      \* IndexError at line 910
                 ELSE play_track(s1, At(s1.filtered_library, index), fail)

\* next_track staying on the last track instead of wrapping
next_track_stays_at_end(s, fail) ==
    LET s0 == Call(s, "next_track")
    IN  IF s0.filtered_library = << >> THEN s0
        ELSE LET index == IF s0.current_track_index < Len(s0.filtered_library) - 1
                          THEN s0.current_track_index + 1
                          ELSE Len(s0.filtered_library) - 1
                 s1 == [s0 EXCEPT !.current_track_index = index]
             IN  play_track(s1, At(s1.filtered_library, index), fail)

\* next_track taking the unset index for the position before the last track
next_track_unset_plays_last(s, fail) ==
    LET s0 == Call(s, "next_track")
    IN  IF s0.filtered_library = << >> THEN s0
        ELSE LET index == IF s0.current_track_index < 0
                          THEN Len(s0.filtered_library) - 1
                          ELSE IF s0.current_track_index < Len(s0.filtered_library) - 1
                          THEN s0.current_track_index + 1
                          ELSE 0
                 s1 == [s0 EXCEPT !.current_track_index = index]
             IN  play_track(s1, At(s1.filtered_library, index), fail)

\* next_track, lines 916-930
next_track(s, fail) ==
    LET s0 == Call(s, "next_track")
    IN  IF s0.filtered_library = << >> THEN s0
        ELSE LET index == IF s0.current_track_index < Len(s0.filtered_library) - 1
                          THEN s0.current_track_index + 1
                          ELSE 0
                 s1 == [s0 EXCEPT !.current_track_index = index]
             IN  IF index >= Len(s1.filtered_library) \/ index < -Len(s1.filtered_library)
                 THEN [s1 EXCEPT !.raised = TRUE]      \* IndexError at line 926
                 ELSE play_track(s1, At(s1.filtered_library, index), fail)

\* play_selected_track, lines 803-815; selection is empty or holds the index of the
\* selected row of the tree, which holds one row per track of the view
play_selected_track(s, selection, fail) ==
    LET s0 == Call(s, "play_selected_track")
    IN  IF selection = << >> THEN s0
        ELSE IF 0 <= selection[1] /\ selection[1] < Len(s0.filtered_library)
        THEN [play_track(s0, At(s0.filtered_library, selection[1]), fail)
                  EXCEPT !.current_track_index = selection[1]]
        ELSE s0

\* update_track_display leaving current_track_index as it is
update_track_display_keeps_index(s) == Call(s, "update_track_display")

\* update_track_display, lines 739-755
update_track_display(s) ==
    LET s0 == Call(s, "update_track_display")
        hits == {i \in 0..(Len(s0.filtered_library) - 1) :
                    /\ s0.current_track # None
                    /\ At(s0.filtered_library, i) = s0.current_track}
    IN  IF hits = {} THEN s0
        ELSE [s0 EXCEPT !.current_track_index = CHOOSE i \in hits : \A j \in hits : j <= i]

\* the libraries load_sample_data and scan_folder can build
Libraries ==
    { << >>, paths_of(sample_tracks) }
        \cup { paths_of(scan_tracks(walk(folder_path))) : folder_path \in Folders \cup {"empty"} }

\* search_result for every text and library, computed once
SearchResults ==
    [text \in Queries |-> [library \in Libraries |-> search_result(text, library)]]

\* on_search_change unsetting the index when the view loses the current track
on_search_change_unsets_index(s) ==
    LET s0 == Call(s, "on_search_change")
        s1 == update_track_display(
                  [s0 EXCEPT !.filtered_library = SearchResults[s0.search_var][s0.music_library]])
    IN  IF \E k \in 1..Len(s1.filtered_library) : s1.filtered_library[k] = s1.current_track
        THEN s1
        ELSE [s1 EXCEPT !.current_track_index = -1]

\* on_search_change, lines 776-791; the entry's text is already in search_var
on_search_change(s) ==
    LET s0 == Call(s, "on_search_change")
    IN  update_track_display(
            [s0 EXCEPT !.filtered_library = SearchResults[s0.search_var][s0.music_library]])

\* load_sample_data, lines 650-662
load_sample_data(s) ==
    LET tracks == paths_of(sample_tracks)
    IN  update_track_display(
            [s EXCEPT !.music_library = tracks, !.filtered_library = tracks])

\* scan_folder taking a missing folder for an empty one
scan_folder_empties_on_missing(s, folder_path) ==
    LET s0 == Call(s, "scan_folder")
        tracks == paths_of(scan_tracks(walk(folder_path)))
    IN  update_track_display(
            [s0 EXCEPT !.music_library = tracks, !.filtered_library = tracks])

\* scan_folder, lines 664-687
scan_folder(s, folder_path) ==
    LET s0 == Call(s, "scan_folder")
    IN  IF ~folder_exists(folder_path) THEN s0
        ELSE LET tracks == paths_of(scan_tracks(walk(folder_path)))
             IN  update_track_display(
                     [s0 EXCEPT !.music_library = tracks, !.filtered_library = tracks])

\* is folder in self.library_paths
in_list(x, list) == \E k \in 1..Len(list) : list[k] = x

\* add_music_folder, lines 1254-1277; folder is what the directory dialog returned
add_music_folder(s, folder) ==
    LET s0 == Call(s, "add_music_folder")
    IN  IF in_list(folder, s0.library_paths) THEN s0
        ELSE scan_folder([s0 EXCEPT !.library_paths = Append(@, folder)], folder)

\* change_volume recording the volume only when the backend is there
change_volume_needs_backend(s, value, fail) ==
    LET s0 == Call(s, "change_volume")
    IN  IF s0.audio_enabled
        THEN IF fail = "set_volume" THEN Raise([s0 EXCEPT !.volume = value], "set_volume")
             ELSE Call([s0 EXCEPT !.volume = value], "set_volume")
        ELSE s0

\* change_volume, lines 932-943
change_volume(s, value, fail) ==
    LET s0 == [Call(s, "change_volume") EXCEPT !.volume = value]
    IN  IF s0.audio_enabled
        THEN IF fail = "set_volume" THEN Raise(s0, "set_volume") ELSE Call(s0, "set_volume")
        ELSE s0

\* pygame.mixer.music.get_busy(): a paused stream is reported busy by pygame 1
\* and not busy by pygame 2
get_busy_values(m) ==
    IF m = "playing" THEN {TRUE}
    ELSE IF m = "paused" THEN {TRUE, FALSE}
    ELSE {FALSE}

\* update_loop advancing without looking at self.paused
update_loop_tick_ignores_paused(s, busy, fail) ==
    LET s0 == Call(s, "update_loop")
    IN  IF s0.audio_enabled /\ s0.playing
        THEN LET s1 == Call(s0, "get_busy")
             IN  IF ~busy THEN next_track(s1, fail) ELSE s1
        ELSE s0

\* one iteration of update_loop, lines 1313-1321; busy is what get_busy returns
update_loop_tick(s, busy, fail) ==
    LET s0 == Call(s, "update_loop")
    IN  IF s0.audio_enabled /\ s0.playing
        THEN LET s1 == Call(s0, "get_busy")
             IN  IF ~busy /\ ~s1.paused THEN next_track(s1, fail) ELSE s1
        ELSE s0


(***************************************************************************)
(* Construction: __init__, load_config and load_selected_library.          *)
(***************************************************************************)
\* a thread: its position pc, the handler op it runs, and its locals: track
\* (the local "track"), arg (an index held in a local or temporary), view (a
\* reference to a list read from self), ret (what follows play_track's
\* return), saw (the mixer state behind the monitor's last get_busy answer),
\* events (the number of events the main thread has taken so far)
UiIdle == [pc |-> "idle", op |-> "", track |-> None, arg |-> 0, view |-> << >>,
           ret |-> "", saw |-> "", events |-> 0]
MonIdle == [pc |-> "loop", op |-> "", track |-> None, arg |-> 0, view |-> << >>,
            ret |-> "", saw |-> "", events |-> 0]
MonDead == [MonIdle EXCEPT !.pc = "dead"]

\* what config.ini holds at startup: the saved volume, the library paths and
\* the active path (the first entry is the state without a config file, the
\* last a file edited by hand: getint at line 214 takes any integer)
Configs == {
    [volume |-> 80, paths |-> << >>, active |-> "" ],
    [volume |-> 80, paths |-> <<"music">>, active |-> "music"],
    [volume |-> 80, paths |-> <<"gone", "empty">>, active |-> "gone"],
    [volume |-> 150, paths |-> <<"gone">>, active |-> "gone"] }

\* __init__, lines 56-95, then load_config, lines 208-228
init_fields(audio, config) ==
    [music_library |-> << >>, filtered_library |-> << >>,
     current_track |-> None, current_track_index |-> -1,
     playing |-> FALSE, paused |-> FALSE,
     volume |-> config.volume, search_var |-> << >>,
     library_paths |-> config.paths,
     audio_enabled |-> audio, mixer |-> "idle",
     calls |-> << >>, failed |-> "", raised |-> FALSE]

\* load_selected_library, lines 637-648
load_selected_library(s, active) ==
    IF active # "" /\ folder_exists(active)
    THEN scan_folder(s, active)
    ELSE IF s.library_paths # << >>
    THEN LET found == {k \in 1..Len(s.library_paths) : folder_exists(s.library_paths[k])}
         IN  IF found = {} THEN s
             ELSE scan_folder(s, s.library_paths[CHOOSE k \in found : \A j \in found : k <= j])
    ELSE load_sample_data(s)

\* the fields of the application object in the current state
Self ==
    [music_library |-> music_library, filtered_library |-> filtered_library,
     current_track |-> current_track, current_track_index |-> current_track_index,
     playing |-> playing, paused |-> paused,
     volume |-> volume, search_var |-> search_var,
     library_paths |-> library_paths,
     audio_enabled |-> audio_enabled, mixer |-> mixer,
     calls |-> << >>, failed |-> "", raised |-> FALSE]

\* the status the flags playing and paused stand for
Status(s) ==
    IF s.paused THEN "Paused" ELSE IF s.playing THEN "Playing" ELSE "Stopped"

\* the next state holds the fields r
Becomes(r) ==
    /\ music_library' = r.music_library
    /\ filtered_library' = r.filtered_library
    /\ current_track' = r.current_track
    /\ current_track_index' = r.current_track_index
    /\ playing' = r.playing
    /\ paused' = r.paused
    /\ volume' = r.volume
    /\ search_var' = r.search_var
    /\ library_paths' = r.library_paths
    /\ audio_enabled' = r.audio_enabled
    /\ mixer' = r.mixer

\* a handler run as one step: op is the handler, r the fields it leaves
Handled(op, r) ==
    /\ Becomes(r)
    /\ last' = [op |-> op, index |-> current_track_index,
                track |-> current_track, status |-> Status(Self),
                follows_next |-> (op = "previous_track" /\ last.op = "next_track"),
                calls |-> r.calls, failed |-> r.failed, raised |-> r.raised]
    /\ UNCHANGED <<ui, mon>>

Init ==
    \E audio \in BOOLEAN, config \in Configs :
        LET r == load_selected_library(init_fields(audio, config), config.active)
        IN  /\ music_library = r.music_library
            /\ filtered_library = r.filtered_library
            /\ current_track = r.current_track
            /\ current_track_index = r.current_track_index
            /\ playing = r.playing
            /\ paused = r.paused
            /\ volume = r.volume
            /\ search_var = r.search_var
            /\ library_paths = r.library_paths
            /\ audio_enabled = r.audio_enabled
            /\ mixer = r.mixer
            /\ last = [op |-> "__init__", index |-> -1, track |-> None,
                       status |-> "Stopped", follows_next |-> FALSE,
                       calls |-> r.calls, failed |-> r.failed, raised |-> r.raised]
            /\ ui = UiIdle
            /\ mon = MonIdle

(***************************************************************************)
(* Spec: the user's actions and the monitor's tick, each as one step.      *)
(***************************************************************************)
\* volumes the volume scale (from_=0, to=100) can hand to change_volume
ScaleValues == {100}

\* the selection of the tree: no row, or one row of the displayed view
Selections == { << >> } \cup { <<i>> : i \in 0..(Len(filtered_library) - 1) }

PlaySelected ==
    \E selection \in Selections, fail \in PlayFailures :
        Handled("play_selected_track", play_selected_track(Self, selection, fail))

Toggle ==
    \E fail \in ToggleFailures : Handled("toggle_playback", toggle_playback(Self, fail))

Stop ==
    \E fail \in StopFailures : Handled("stop_playback", stop_playback(Self, fail))

Previous ==
    \E fail \in PlayFailures : Handled("previous_track", previous_track(Self, fail))

NextTrack ==
    \E fail \in PlayFailures : Handled("next_track", next_track(Self, fail))

Search ==
    \E text \in Queries \ {search_var} :
        Handled("on_search_change", on_search_change([Self EXCEPT !.search_var = text]))

AddFolder ==
    \E folder \in Folders : Handled("add_music_folder", add_music_folder(Self, folder))

ChangeVolume ==
    \E value \in ScaleValues, fail \in VolumeFailures :
        Handled("change_volume", change_volume(Self, value, fail))

Tick ==
    \E busy \in get_busy_values(mixer), fail \in PlayFailures :
        Handled("update_loop", update_loop_tick(Self, busy, fail))

\* the backend reaches the end of the stream it is playing
TrackEnds ==
    /\ mixer = "playing"
    /\ mixer' = "ended"
    /\ last' = [op |-> "track_ends", index |-> current_track_index,
                track |-> current_track, status |-> Status(Self), follows_next |-> FALSE,
                calls |-> << >>, failed |-> "", raised |-> FALSE]
    /\ UNCHANGED <<music_library, filtered_library, current_track, current_track_index,
                   playing, paused, volume, search_var, library_paths, audio_enabled,
                   ui, mon>>

Next ==
    \/ PlaySelected
    \/ Toggle
    \/ Stop
    \/ Previous
    \/ NextTrack
    \/ Search
    \/ AddFolder
    \/ ChangeVolume
    \/ Tick
    \/ TrackEnds

Spec == Init /\ [][Next]_vars

(***************************************************************************)
(* SpecCalls: Spec with play_track also called directly with no track,     *)
(* the call its guard at lines 819-820 is written for and no handler       *)
(* makes.                                                                  *)
(***************************************************************************)
PlayNoTrack ==
    \E fail \in PlayFailures : Handled("play_track", play_track(Self, None, fail))

NextCalls ==
    \/ Next
    \/ PlayNoTrack

SpecCalls == Init /\ [][NextCalls]_vars


(***************************************************************************)
(* SpecThreads: the Tk main thread runs the handlers and the update thread *)
(* runs update_loop, one access to a shared field or one backend call per  *)
(* step.  Step(who, s, th) is the set of outcomes [s, th] of the next step  *)
(* of thread th (who is "ui" or "mon") on the fields s.  Reads of          *)
(* music_library, filtered_library, search_var and library_paths made by   *)
(* the main thread are joined with the step that follows them: only the    *)
(* main thread writes these fields.                                        *)
(***************************************************************************)
Outcome(s, th) == [s |-> s, th |-> th]

\* the handler returns
Finish(who, th) == IF who = "ui" THEN [UiIdle EXCEPT !.events = th.events] ELSE MonIdle

\* an exception leaves the handler: Tk reports it and the main loop goes on;
\* in update_loop the bare except breaks the loop (line 1322)
Escapes(who, th) == IF who = "ui" THEN [UiIdle EXCEPT !.events = th.events] ELSE MonDead

\* play_track returns to its caller
Return(who, th) ==
    IF th.ret = "set_index" THEN [th EXCEPT !.pc = "set_index", !.track = None]
    ELSE Finish(who, th)

\* python list indexing view[i], negative indexes counting from the end
InRange(view, i) == -Len(view) <= i /\ i < Len(view)
Subscript(view, i) == IF i >= 0 THEN view[i + 1] ELSE view[Len(view) + i + 1]

\* the statements of play_track, lines 817-847
play_track_step(who, s, th) ==
    CASE th.pc = "pt_set" ->
            IF th.track = None THEN { Outcome(s, Return(who, th)) }
            ELSE IF ui.pc = "closed"
            \* the label of line 828 is destroyed: TclError leaves play_track
            THEN { Outcome([s EXCEPT !.current_track = th.track], Escapes(who, th)) }
            ELSE { Outcome([s EXCEPT !.current_track = th.track],
                           [th EXCEPT !.pc = IF s.audio_enabled /\ path_exists(th.track)
                                            THEN "pt_load" ELSE "pt_playing"]) }
      [] th.pc = "pt_load" ->
            { Outcome([s EXCEPT !.mixer = "loaded"], [th EXCEPT !.pc = "pt_play"]),
              Outcome(s, Return(who, th)) }
      [] th.pc = "pt_play" ->
            { Outcome([s EXCEPT !.mixer = "playing"], [th EXCEPT !.pc = "pt_playing"]),
              Outcome(s, Return(who, th)) }
      [] th.pc = "pt_playing" ->
            { Outcome([s EXCEPT !.playing = TRUE], [th EXCEPT !.pc = "pt_paused"]) }
      [] th.pc = "pt_paused" ->
            { Outcome([s EXCEPT !.paused = FALSE], Return(who, th)) }
      [] th.pc = "set_index" ->
            { Outcome([s EXCEPT !.current_track_index = th.arg], Finish(who, th)) }

\* the statements of next_track, lines 916-930, and of previous_track,
\* lines 900-914
navigation_step(who, s, th) ==
    CASE th.pc = "nt_empty" ->
            IF s.filtered_library = << >> THEN { Outcome(s, Finish(who, th)) }
            ELSE { Outcome(s, [th EXCEPT !.pc = "nt_cmp_index"]) }
      [] th.pc = "nt_cmp_index" ->
            { Outcome(s, [th EXCEPT !.pc = "nt_cmp_len", !.arg = s.current_track_index]) }
      [] th.pc = "nt_cmp_len" ->
            \* th.view is the list whose length line 921 takes
            IF th.arg < Len(s.filtered_library) - 1
            THEN { Outcome(s, [th EXCEPT !.pc = "nt_inc_read", !.arg = 0,
                                         !.view = s.filtered_library]) }
            ELSE { Outcome(s, [th EXCEPT !.pc = "nt_zero", !.arg = 0,
                                         !.view = s.filtered_library]) }
      [] th.pc = "nt_inc_read" ->
            { Outcome(s, [th EXCEPT !.pc = "nt_inc_write", !.arg = s.current_track_index]) }
      [] th.pc = "nt_inc_write" ->
            { Outcome([s EXCEPT !.current_track_index = th.arg + 1],
                      [th EXCEPT !.pc = "nav_view", !.arg = 0]) }
      [] th.pc = "nt_zero" ->
            { Outcome([s EXCEPT !.current_track_index = 0], [th EXCEPT !.pc = "nav_view"]) }
      [] th.pc = "pv_empty" ->
            IF s.filtered_library = << >> THEN { Outcome(s, Finish(who, th)) }
            ELSE { Outcome(s, [th EXCEPT !.pc = "pv_cmp_index"]) }
      [] th.pc = "pv_cmp_index" ->
            IF s.current_track_index > 0
            THEN { Outcome(s, [th EXCEPT !.pc = "pv_dec_read"]) }
            ELSE { Outcome(s, [th EXCEPT !.pc = "pv_last"]) }
      [] th.pc = "pv_dec_read" ->
            { Outcome(s, [th EXCEPT !.pc = "pv_dec_write", !.arg = s.current_track_index]) }
      [] th.pc = "pv_dec_write" ->
            { Outcome([s EXCEPT !.current_track_index = th.arg - 1],
                      [th EXCEPT !.pc = "nav_view", !.arg = 0]) }
      [] th.pc = "pv_last" ->
            { Outcome([s EXCEPT !.current_track_index = Len(s.filtered_library) - 1],
                      [th EXCEPT !.pc = "nav_view"]) }
      [] th.pc = "nav_view" ->
            { Outcome(s, [th EXCEPT !.pc = "nav_subscript", !.view = s.filtered_library]) }
      [] th.pc = "nav_subscript" ->
            IF InRange(th.view, s.current_track_index)
            THEN { Outcome(s, [th EXCEPT !.pc = "pt_set", !.view = << >>, !.ret = "done",
                                         !.track = Subscript(th.view, s.current_track_index)]) }
            ELSE { Outcome(s, Escapes(who, th)) }

\* stop_playback without its assignment to self.paused
stop_playback_step_keeps_paused(who, s, th) ==
    CASE th.pc = "sp_stop" ->
            IF s.audio_enabled
            THEN { Outcome([s EXCEPT !.mixer = IF @ \in {"playing", "paused"} THEN "stopped" ELSE @],
                           [th EXCEPT !.pc = "sp_playing"]),
                   Outcome(s, [th EXCEPT !.pc = "sp_playing"]) }
            ELSE { Outcome([s EXCEPT !.playing = FALSE], [th EXCEPT !.pc = "sp_paused"]) }
      [] th.pc = "sp_playing" ->
            { Outcome([s EXCEPT !.playing = FALSE], [th EXCEPT !.pc = "sp_paused"]) }
      [] th.pc = "sp_paused" ->
            { Outcome(s, Finish(who, th)) }

\* the statements of stop_playback, lines 886-898
stop_playback_step(who, s, th) ==
    CASE th.pc = "sp_stop" ->
            IF s.audio_enabled
            THEN { Outcome([s EXCEPT !.mixer = IF @ \in {"playing", "paused"} THEN "stopped" ELSE @],
                           [th EXCEPT !.pc = "sp_playing"]),
                   Outcome(s, [th EXCEPT !.pc = "sp_playing"]) }
            ELSE { Outcome([s EXCEPT !.playing = FALSE], [th EXCEPT !.pc = "sp_paused"]) }
      [] th.pc = "sp_playing" ->
            { Outcome([s EXCEPT !.playing = FALSE], [th EXCEPT !.pc = "sp_paused"]) }
      [] th.pc = "sp_paused" ->
            { Outcome([s EXCEPT !.paused = FALSE], Finish(who, th)) }

\* the statements of toggle_playback, lines 849-884
toggle_playback_step(who, s, th) ==
    CASE th.pc = "tg_track" ->
            IF s.current_track = None
            THEN IF s.filtered_library = << >> THEN { Outcome(s, Finish(who, th)) }
                 ELSE { Outcome(s, [th EXCEPT !.pc = "pt_set", !.ret = "set_index", !.arg = 0,
                                              !.track = At(s.filtered_library, 0)]) }
            ELSE { Outcome(s, [th EXCEPT !.pc = "tg_playing"]) }
      [] th.pc = "tg_playing" ->
            IF s.playing THEN { Outcome(s, [th EXCEPT !.pc = "tg_paused"]) }
            ELSE { Outcome(s, [th EXCEPT !.pc = IF s.audio_enabled THEN "tg_elif"
                                                ELSE "tg_clear_paused"]) }
      [] th.pc = "tg_paused" ->
            IF ~s.paused
            THEN { Outcome(s, [th EXCEPT !.pc = IF s.audio_enabled THEN "tg_pause"
                                                ELSE "tg_set_paused"]) }
            ELSE { Outcome(s, [th EXCEPT !.pc = IF s.audio_enabled THEN "tg_elif"
                                                ELSE "tg_clear_paused"]) }
      [] th.pc = "tg_elif" ->
            IF s.paused THEN { Outcome(s, [th EXCEPT !.pc = "tg_unpause"]) }
            ELSE { Outcome(s, [th EXCEPT !.pc = "tg_restart"]) }
      [] th.pc = "tg_pause" ->
            { Outcome([s EXCEPT !.mixer = IF @ = "playing" THEN "paused" ELSE @],
                      [th EXCEPT !.pc = "tg_set_paused"]),
              Outcome(s, Finish(who, th)) }
      [] th.pc = "tg_set_paused" ->
            { Outcome([s EXCEPT !.paused = TRUE], Finish(who, th)) }
      [] th.pc = "tg_unpause" ->
            { Outcome([s EXCEPT !.mixer = IF @ = "paused" THEN "playing" ELSE @],
                      [th EXCEPT !.pc = "tg_clear_paused"]),
              Outcome(s, Finish(who, th)) }
      [] th.pc = "tg_clear_paused" ->
            { Outcome([s EXCEPT !.paused = FALSE], Finish(who, th)) }
      [] th.pc = "tg_restart" ->
            { Outcome(s, [th EXCEPT !.pc = "pt_set", !.ret = "done",
                                    !.track = s.current_track]) }

\* the statements of update_track_display, lines 748-755; th.arg is i
update_track_display_step(who, s, th) ==
    CASE th.pc = "utd_loop" ->
            IF th.arg >= Len(s.filtered_library) THEN { Outcome(s, Finish(who, th)) }
            ELSE IF s.current_track = None
            THEN { Outcome(s, [th EXCEPT !.arg = @ + 1]) }
            ELSE { Outcome(s, [th EXCEPT !.pc = "utd_compare"]) }
      [] th.pc = "utd_compare" ->
            IF s.current_track # None /\ At(s.filtered_library, th.arg) = s.current_track
            THEN { Outcome(s, [th EXCEPT !.pc = "utd_set"]) }
            ELSE { Outcome(s, [th EXCEPT !.pc = "utd_loop", !.arg = @ + 1]) }
      [] th.pc = "utd_set" ->
            { Outcome([s EXCEPT !.current_track_index = th.arg],
                      [th EXCEPT !.pc = "utd_loop", !.arg = @ + 1]) }

\* the statements of on_search_change, lines 776-791, and of
\* add_music_folder / scan_folder, lines 1261-1265 and 664-684
library_step(who, s, th) ==
    CASE th.pc = "sr_filter" ->
            { Outcome([s EXCEPT !.filtered_library = SearchResults[s.search_var][s.music_library]],
                      [th EXCEPT !.pc = "utd_loop", !.arg = 0]) }
      [] th.pc = "sc_view" ->
            { Outcome([s EXCEPT !.filtered_library = s.music_library],
                      [th EXCEPT !.pc = "utd_loop", !.arg = 0]) }

\* the statements of update_loop, lines 1313-1321
update_loop_step(who, s, th) ==
    CASE th.pc = "loop" ->
            IF s.audio_enabled /\ s.playing
            THEN { Outcome(s, [th EXCEPT !.pc = "mn_busy", !.op = "update_loop"]) }
            ELSE { }
      [] th.pc = "mn_busy" ->
            \* get_busy() raises pygame.error once the mixer has been quit
            IF s.mixer = "quit" THEN { Outcome(s, Escapes(who, th)) }
            ELSE { Outcome(s, IF busy THEN MonIdle
                              ELSE [th EXCEPT !.pc = "mn_paused", !.saw = s.mixer])
                     : busy \in get_busy_values(s.mixer) }
      [] th.pc = "mn_paused" ->
            IF s.paused THEN { Outcome(s, MonIdle) }
            ELSE { Outcome(s, [th EXCEPT !.pc = "nt_empty"]) }
      [] th.pc = "dead" -> { }

PlayTrackPcs == {"pt_set", "pt_load", "pt_play", "pt_playing", "pt_paused", "set_index"}
NavigationPcs == {"nt_empty", "nt_cmp_index", "nt_cmp_len", "nt_inc_read", "nt_inc_write",
                  "nt_zero", "pv_empty", "pv_cmp_index", "pv_dec_read", "pv_dec_write",
                  "pv_last", "nav_view", "nav_subscript"}
StopPcs == {"sp_stop", "sp_playing", "sp_paused"}
TogglePcs == {"tg_track", "tg_playing", "tg_paused", "tg_elif", "tg_pause", "tg_set_paused",
              "tg_unpause", "tg_clear_paused", "tg_restart"}
DisplayPcs == {"utd_loop", "utd_compare", "utd_set"}
LibraryPcs == {"sr_filter", "sc_view"}

Step(who, s, th) ==
    IF th.pc \in PlayTrackPcs THEN play_track_step(who, s, th)
    ELSE IF th.pc \in NavigationPcs THEN navigation_step(who, s, th)
    ELSE IF th.pc \in StopPcs THEN stop_playback_step(who, s, th)
    ELSE IF th.pc \in TogglePcs THEN toggle_playback_step(who, s, th)
    ELSE IF th.pc \in DisplayPcs THEN update_track_display_step(who, s, th)
    ELSE IF th.pc \in LibraryPcs THEN library_step(who, s, th)
    ELSE update_loop_step(who, s, th)

\* the main thread enters handler op at pc
Enter(op, pc) == [UiIdle EXCEPT !.op = op, !.pc = pc, !.events = ui.events + 1]

\* the main thread takes an event from the queue and runs the first
\* statement of its handler
UiStart ==
    /\ ui.pc = "idle"
    /\ ui.events < MaxEvents
    /\ \E th \in { Enter("stop_playback", "sp_stop"),
                   Enter("toggle_playback", "tg_track"),
                   Enter("next_track", "nt_empty"),
                   Enter("previous_track", "pv_empty") }
                 \cup { [Enter("play_selected_track", "pt_set") EXCEPT
                            !.track = At(filtered_library, i), !.ret = "set_index", !.arg = i]
                        : i \in 0..(Len(filtered_library) - 1) } :
          \E o \in Step("ui", Self, th) :
              /\ Becomes(o.s)
              /\ ui' = o.th
    /\ UNCHANGED <<last, mon>>

\* the user edits the search entry: search_var is written and its trace
\* runs on_search_change
UiSearch ==
    /\ ui.pc = "idle"
    /\ ui.events < MaxEvents
    /\ \E text \in Queries \ {search_var} :
          \E o \in Step("ui", [Self EXCEPT !.search_var = text],
                        Enter("on_search_change", "sr_filter")) :
              /\ Becomes(o.s)
              /\ ui' = o.th
    /\ UNCHANGED <<last, mon>>

\* add_music_folder on a folder that exists and is not in library_paths:
\* the folder is recorded and scanned (lines 1262-1265, 670-681), then the
\* view is replaced (line 682)
UiAddFolder ==
    /\ ui.pc = "idle"
    /\ ui.events < MaxEvents
    /\ \E folder \in Folders :
          /\ ~in_list(folder, library_paths)
          /\ folder_exists(folder)
          /\ Becomes([Self EXCEPT !.library_paths = Append(@, folder),
                                  !.music_library = paths_of(scan_tracks(walk(folder)))])
          /\ ui' = Enter("add_music_folder", "sc_view")
    /\ UNCHANGED <<last, mon>>

\* on_closing, lines 1325-1333: the mixer is quit (a failure of quit() is
\* swallowed) and the window destroyed, which ends the main loop
UiClose ==
    /\ ui.pc = "idle"
    /\ mixer' \in IF audio_enabled THEN {"quit", mixer} ELSE {mixer}
    /\ ui' = [UiIdle EXCEPT !.pc = "closed", !.op = "on_closing", !.events = ui.events]
    /\ UNCHANGED <<music_library, filtered_library, current_track, current_track_index,
                   playing, paused, volume, search_var, library_paths, audio_enabled,
                   last, mon>>

UiStep ==
    /\ ui.pc \notin {"idle", "closed"}
    /\ \E o \in Step("ui", Self, ui) :
          /\ Becomes(o.s)
          /\ ui' = o.th
    /\ UNCHANGED <<last, mon>>

MonStep ==
    /\ \E o \in Step("mon", Self, mon) :
          /\ Becomes(o.s)
          /\ mon' = o.th
    /\ UNCHANGED <<last, ui>>

\* the backend reaches the end of the stream it is playing
StreamEnds ==
    /\ mixer = "playing"
    /\ mixer' = "ended"
    /\ UNCHANGED <<music_library, filtered_library, current_track, current_track_index,
                   playing, paused, volume, search_var, library_paths, audio_enabled,
                   last, ui, mon>>

NextThreads ==
    \/ UiStart
    \/ UiSearch
    \/ UiAddFolder
    \/ UiClose
    \/ UiStep
    \/ MonStep
    \/ StreamEnds

SpecThreads == Init /\ [][NextThreads]_vars

\* SpecThreads with the update thread scheduled: a step of update_loop that
\* can be taken is eventually taken
SpecShutdown == SpecThreads /\ WF_vars(MonStep)

(***************************************************************************)
(* Properties.                                                             *)
(***************************************************************************)
ViewLen == Len(filtered_library)

\* how often the last handler called name
CallCount(name) == Cardinality({k \in 1..Len(last.calls) : last.calls[k] = name})

Called(name) == CallCount(name) > 0

\* the index after i in the view, wrapping at the end
Successor(i) == IF i < ViewLen - 1 THEN i + 1 ELSE 0

\* the position of the current track in the view, or -1 when it is not there
PositionInView ==
    IF \E i \in 0..(ViewLen - 1) : At(filtered_library, i) = current_track
    THEN CHOOSE i \in 0..(ViewLen - 1) : At(filtered_library, i) = current_track
    ELSE -1

\* C1: Navigation wraps.  On a non-empty view next_track() called at the last
\* index sets the index to 0 and plays filtered[0]; previous_track() called at
\* index 0 sets the index to len-1 and plays filtered[len-1].
C1_NavigationWraps ==
    [][ /\ ( /\ Called("next_track")'
             /\ ViewLen > 0
             /\ current_track_index = ViewLen - 1 )
            => /\ current_track_index' = 0
               /\ current_track' = At(filtered_library, 0)
               /\ Called("play_track")'
               /\ ~last'.raised
        /\ ( /\ last'.op = "previous_track"
             /\ ViewLen > 0
             /\ current_track_index = 0 )
            => /\ current_track_index' = ViewLen - 1
               /\ current_track' = At(filtered_library, ViewLen - 1)
               /\ Called("play_track")'
               /\ ~last'.raised ]_vars

\* next_track() has wrapped from the last index of a view of several tracks
C1_Witness ==
    /\ last.op = "next_track"
    /\ ViewLen >= 2
    /\ last.index = ViewLen - 1
    /\ current_track_index = 0
    /\ current_track = At(filtered_library, 0)

\* the fields after next_track() followed by previous_track() from the
\* current state
NextThenPrevious(fail1, fail2) == previous_track(next_track(Self, fail1), fail2)

\* C2 as claimed: on a view of length >= 2, from any index the controller
\* holds, next_track() then previous_track() leaves current_track_index and
\* current_track as they were.
C2_NextPreviousFromAnyIndex ==
    ViewLen >= 2 =>
        \A fail1, fail2 \in PlayFailures :
            /\ NextThenPrevious(fail1, fail2).current_track_index = current_track_index
            /\ NextThenPrevious(fail1, fail2).current_track = current_track

\* C2 amended: on a view of length >= 2, from any index within 0..len-1,
\* next_track() then previous_track() leaves current_track_index as it was
\* and current_track the view's track at that index, neither call raising.
C2_NextPreviousRoundTrip ==
    (ViewLen >= 2 /\ current_track_index \in 0..(ViewLen - 1)) =>
        \A fail1, fail2 \in PlayFailures :
            /\ NextThenPrevious(fail1, fail2).current_track_index = current_track_index
            /\ NextThenPrevious(fail1, fail2).current_track
                   = At(filtered_library, current_track_index)
            /\ ~NextThenPrevious(fail1, fail2).raised

\* previous_track() right after next_track() is back on the track it started from
C2_Witness ==
    /\ last.op = "previous_track"
    /\ last.follows_next
    /\ ViewLen >= 2
    /\ last.index = Successor(current_track_index)
    /\ current_track = At(filtered_library, current_track_index)

\* C3: after a recomputation of the view (search change or rescan)
\* current_track_index is the position of the current track in the new view,
\* and unset (-1) when the current track is not in it.
C3_IndexResolvedAfterRecomputation ==
    (last.op \in {"on_search_change", "add_music_folder"} /\ Called("update_track_display"))
        => current_track_index = PositionInView

\* C4: next_track(), previous_track() and play_selected_track() never raise,
\* whatever the view and the index they are called with; previous_track()
\* never indexes filtered_library out of range.
C4_NavigationNeverRaises ==
    last.op \in {"next_track", "previous_track", "play_selected_track"} => ~last.raised

\* C5: in every state the view is the search result of the library for the
\* text of the search entry.
C5_ViewIsFilterOfLibrary ==
    filtered_library = search_result(search_var, music_library)

\* C6: toggle_playback() in the Stopped state with a current track, no backend
\* call failing, leaves status Playing with the same current track, with the
\* backend and in simulated mode.
C6_ToggleFromStoppedPlays ==
    [][ ( /\ last'.op = "toggle_playback"
          /\ last'.failed = ""
          /\ ~playing /\ ~paused
          /\ current_track # None )
        => ( /\ playing' /\ ~paused'
             /\ current_track' = current_track ) ]_vars

\* C7: after a play_track whose backend load or play call failed the status
\* is Stopped.
C7_StoppedAfterPlayFailure ==
    (Called("play_track") /\ last.failed \in {"load", "play"}) => (~playing /\ ~paused)

\* the tick's condition: Playing, not Paused, the backend present and not busy
TickAdvances ==
    /\ audio_enabled
    /\ playing /\ ~paused
    /\ mixer \notin {"playing", "paused"}

\* C8: a tick with status Playing, not Paused and the backend not busy calls
\* next_track() exactly once and advances to the next track of the view in
\* order; any other tick calls no next_track() and changes no playback state.
C8_TickAdvancesExactlyOnce ==
    [][ last'.op = "update_loop" =>
          IF TickAdvances
          THEN /\ CallCount("next_track")' = 1
               /\ ViewLen > 0 =>
                     /\ current_track_index' = Successor(current_track_index)
                     /\ current_track' = At(filtered_library, Successor(current_track_index))
          ELSE /\ CallCount("next_track")' = 0
               /\ UNCHANGED <<current_track, current_track_index, playing, paused,
                              volume, mixer, music_library, filtered_library>> ]_vars

\* a tick has advanced from one track of the view to the next
C8_Witness ==
    /\ last.op = "update_loop"
    /\ CallCount("next_track") = 1
    /\ ViewLen >= 2
    /\ last.index \in 0..(ViewLen - 2)
    /\ current_track_index = last.index + 1
    /\ current_track = At(filtered_library, current_track_index)
    /\ playing /\ ~paused


\* the monitor has decided to advance and is running next_track()
MonitorInNextTrack == mon.pc \in NavigationPcs \cup PlayTrackPcs

\* the main thread is inside a controller transition
UiInTransition ==
    /\ ui.pc # "idle"
    /\ ui.op \in {"play_selected_track", "toggle_playback", "stop_playback",
                  "next_track", "previous_track"}

\* C9: auto-advance happens only on a natural end of track: the monitor never
\* calls next_track() on a not-busy answer that the backend gives because of
\* an explicit stop() or pause().
C9_AdvanceOnlyOnNaturalEnd ==
    MonitorInNextTrack => mon.saw \notin {"stopped", "paused"}

\* C10: a controller transition run by the main thread and a next_track() run
\* by the monitor thread are never both in progress.
C10_TransitionsMutuallyExclusive ==
    ~(UiInTransition /\ MonitorInNextTrack)


\* C11: the view is replaced atomically for its readers: the list from which
\* the monitor's next_track() takes the track (line 926) is the list whose
\* length it compared the index with (line 921), and the index it subscripts
\* that list with is in range.
C11_ViewReadInOneVersion ==
    [][ ( /\ mon.op = "update_loop"
          /\ mon.pc = "nav_view"
          /\ mon'.pc = "nav_subscript" )
        => ( /\ mon'.view = mon.view
             /\ InRange(mon'.view, current_track_index') ) ]_vars


\* C12: the volume is always clamped: in every state, the state after
\* construction with the configured volume included, volume is within 0..100.
C12_VolumeWithinRange ==
    volume \in 0..100


\* C13: stop_playback() is idempotent: called in the Stopped state it leaves
\* current_track, current_track_index, playing, paused and volume unchanged,
\* whether or not the backend's stop() fails.
C13_StopIdempotent ==
    [][ (last'.op = "stop_playback" /\ Status(Self) = "Stopped")
        => UNCHANGED <<current_track, current_track_index, playing, paused, volume>> ]_vars

\* stop_playback() has run in the Stopped state with a current track set
C13_Witness ==
    /\ last.op = "stop_playback"
    /\ last.status = "Stopped"
    /\ last.track # None
    /\ current_track = last.track
    /\ current_track_index = last.index
    /\ ~playing /\ ~paused


C15_ToggleWithoutTrackPlaysFirst ==
    [][ (last'.op = "toggle_playback" /\ current_track = None)
        => IF filtered_library = << >>
           THEN UNCHANGED <<current_track, current_track_index, playing, paused,
                            volume, mixer>>
           ELSE /\ current_track' = At(filtered_library, 0)
                /\ current_track_index' = 0
                /\ playing' /\ ~paused' ]_vars

\* C15 amended: toggle_playback() with no current track, on a non-empty view,
\* sets current_track to filtered[0] and current_track_index to 0, and leaves
\* status Playing when the backend's load and play do not fail and the status
\* as it was when one of them fails; on an empty view it changes nothing and
\* calls neither play_track nor the backend.
C15_ToggleWithoutTrackSelectsFirst ==
    [][ (last'.op = "toggle_playback" /\ current_track = None)
        => IF filtered_library = << >>
           THEN /\ UNCHANGED <<current_track, current_track_index, playing, paused,
                               volume, mixer>>
                /\ last'.calls = <<"toggle_playback">>
           ELSE /\ current_track' = At(filtered_library, 0)
                /\ current_track_index' = 0
                /\ IF last'.failed = "" THEN playing' /\ ~paused'
                   ELSE UNCHANGED <<playing, paused>> ]_vars

\* toggle_playback() has started the first track of a filtered view
C15_Witness ==
    /\ last.op = "toggle_playback"
    /\ last.track = None
    /\ last.failed = ""
    /\ ViewLen > 0
    /\ filtered_library # music_library
    /\ current_track = At(filtered_library, 0)
    /\ current_track_index = 0
    /\ playing /\ ~paused


\* the tracks of the library
LibraryTracks == {music_library[k] : k \in 1..Len(music_library)}

\* C16: play_track(track) with a track and a backend that does not fail (or
\* no backend) ends in status Playing (playing, not paused) with
\* current_track = track, from each of Stopped, Playing and Paused.
C16_PlayTrackEndsPlaying ==
    \A track \in LibraryTracks :
        /\ play_track(Self, track, "none").playing
        /\ ~play_track(Self, track, "none").paused
        /\ play_track(Self, track, "none").current_track = track
        /\ play_track(Self, track, "none").failed = ""

\* a handler has called play_track() in the Paused state on another track
\* than the current one, the backend not failing
C16_Witness ==
    /\ Called("play_track")
    /\ last.status = "Paused"
    /\ last.failed = ""
    /\ ~last.raised
    /\ last.track # current_track
    /\ current_track \in LibraryTracks
    /\ playing /\ ~paused


\* C17: play_track() with no track is a no-op: it leaves every field
\* (current_track, current_track_index, playing, paused, volume among them)
\* unchanged and makes no backend call, whatever the backend would do.
C17_PlayNoTrackIsNoOp ==
    \A fail \in PlayFailures : play_track(Self, None, fail) = Call(Self, "play_track")

\* play_track() has been called with no track while a track was playing
C17_Witness ==
    /\ last.op = "play_track"
    /\ last.calls = <<"play_track">>
    /\ last.status = "Playing"
    /\ last.track # None
    /\ current_track = last.track
    /\ current_track_index = last.index
    /\ playing /\ ~paused


\* C18: next_track() and previous_track() on an empty view are no-ops: they
\* leave current_track, current_track_index, playing and paused unchanged and
\* call neither play_track nor the backend.
C18_NavigationOnEmptyViewIsNoOp ==
    [][ (last'.op \in {"next_track", "previous_track"} /\ filtered_library = << >>)
        => /\ UNCHANGED <<current_track, current_track_index, playing, paused, mixer>>
           /\ last'.calls = <<last'.op>>
           /\ ~last'.raised ]_vars

\* previous_track() has run on an empty view while a track was playing
C18_Witness ==
    /\ last.op = "previous_track"
    /\ filtered_library = << >>
    /\ last.calls = <<"previous_track">>
    /\ last.track # None
    /\ last.index >= 0
    /\ current_track = last.track
    /\ current_track_index = last.index
    /\ playing


\* C19: next_track() called while current_track_index is unset (-1, its
\* initial value) on a non-empty view sets current_track_index to 0 and plays
\* filtered[0]; on a one-element view that is the sole element.
C19_NextFromUnsetPlaysFirst ==
    [][ (Called("next_track")' /\ current_track_index = -1 /\ ViewLen > 0)
        => /\ current_track_index' = 0
           /\ current_track' = At(filtered_library, 0)
           /\ Called("play_track")'
           /\ ~last'.raised ]_vars

\* next_track() has run with the index unset on a view of one track
C19_Witness ==
    /\ last.op = "next_track"
    /\ last.index = -1
    /\ last.track = None
    /\ ViewLen = 1
    /\ Len(music_library) > 1
    /\ current_track_index = 0
    /\ current_track = At(filtered_library, 0)


\* two characters equal up to letter case
SameLetter(a, b) ==
    \/ a = b
    \/ \E k \in 1..26 : {a, b} = {UpperChars[k], LowerChars[k]}

\* q occurs in text, letter case ignored
OccursIn(q, text) ==
    \E offset \in 0..(Len(text) - Len(q)) :
        \A k \in 1..Len(q) : SameLetter(text[offset + k], q[k])

\* for each query, the paths of the tracks whose title, artist or album
\* contains it
Matching ==
    [q \in Queries |->
        {track.path : track \in {tr \in Catalog : \/ OccursIn(q, tr.title)
                                                  \/ OccursIn(q, tr.artist)
                                                  \/ OccursIn(q, tr.album)}}]

\* result is the subsequence of library, in its order, of the tracks in keep
IsSubsequenceOf(result, library, keep) ==
    LET kept == {k \in 1..Len(library) : library[k] \in keep}
    IN  /\ Len(result) = Cardinality(kept)
        /\ \A j \in 1..Len(result) :
              \E k \in kept : /\ Cardinality({i \in kept : i <= k}) = j
                              /\ result[j] = library[k]

\* C20: for every library and query the search result is exactly the
\* subsequence of the library, in the library's order, of the tracks whose
\* title, artist or album contains the query case-insensitively; the empty
\* query yields the library itself; and that is the view on_search_change
\* leaves.
C20_SearchIsExactFilter ==
    /\ \A q \in Queries :
          IsSubsequenceOf(SearchResults[q][music_library], music_library, Matching[q])
    /\ SearchResults[<< >>][music_library] = music_library
    /\ last.op = "on_search_change"
          => IsSubsequenceOf(filtered_library, music_library, Matching[search_var])

\* on_search_change() has run for an upper-case query that some tracks of the
\* library match and some do not
C20_Witness ==
    /\ last.op = "on_search_change"
    /\ search_var = <<"C", "O">>
    /\ ViewLen >= 2
    /\ ViewLen < Len(music_library)
    /\ At(filtered_library, 0) = At(music_library, 0)
    /\ \A i \in 0..(ViewLen - 1) : At(filtered_library, i) \in Matching[search_var]


\* a text of one or more characters, all of them spaces
IsBlank(text) == text # << >> /\ \A k \in 1..Len(text) : text[k] = " "

\* C21: a blank query (not empty, whitespace only) gives the whole library in
\* its order, as the empty query does: after on_search_change() on a blank
\* text the view is the library.
C21_BlankQueryGivesLibrary ==
    (last.op = "on_search_change" /\ IsBlank(search_var))
        => filtered_library = music_library


\* the fields of the current state without and with the audio backend
SimulatedMode == [Self EXCEPT !.audio_enabled = FALSE]
BackendMode == [Self EXCEPT !.audio_enabled = TRUE]

\* the playback state of the fields r
Controller(r) == <<r.playing, r.paused, r.current_track, r.current_track_index>>

\* the calls of a sequence: the four handlers without argument, and
\* play_selected_track on each row of the view
ControllerCalls ==
    { <<"toggle_playback">>, <<"stop_playback">>, <<"next_track">>, <<"previous_track">> }
        \cup { <<"play_selected_track", i>> : i \in 0..(ViewLen - 1) }

\* the fields after one call, the backend not failing
AfterCall(s, call) ==
    CASE call[1] = "toggle_playback" -> toggle_playback(s, "none")
      [] call[1] = "stop_playback" -> stop_playback(s, "none")
      [] call[1] = "next_track" -> next_track(s, "none")
      [] call[1] = "previous_track" -> previous_track(s, "none")
      [] call[1] = "play_selected_track" -> play_selected_track(s, <<call[2]>>, "none")

\* the fields after a sequence of calls
RECURSIVE AfterCalls(_, _)
AfterCalls(s, calls) ==
    IF calls = << >> THEN s ELSE AfterCalls(AfterCall(s, Head(calls)), Tail(calls))

\* C22: without the backend the controller makes the same transitions as with
\* a backend that never fails: from the constructed application, every
\* sequence of up to MaxCalls calls of play_selected_track (play_track),
\* toggle_playback, stop_playback, next_track and previous_track leaves the
\* same playing, paused, current_track and current_track_index in both modes.
C22_SimulatedModeEquivalent ==
    last.op = "__init__" =>
        \A n \in 0..MaxCalls : \A calls \in [1..n -> ControllerCalls] :
            Controller(AfterCalls(SimulatedMode, calls))
                = Controller(AfterCalls(BackendMode, calls))


\* C23: no backend failure leaves a controller operation: when load, play,
\* pause, unpause, stop or set_volume raises, the handler that made the call
\* returns normally, and after a failed pause or unpause the paused flag is
\* what it was before the handler.
C23_BackendFailureContained ==
    last.failed # "" =>
        /\ ~last.raised
        /\ last.failed \in {"pause", "unpause"} => (paused <=> last.status = "Paused")

\* toggle_playback() has returned from a failed unpause, still Paused
C23_Witness ==
    /\ last.op = "toggle_playback"
    /\ last.failed = "unpause"
    /\ last.status = "Paused"
    /\ ~last.raised
    /\ paused /\ playing
    /\ mixer = "paused"


\* C24: change_volume(v) does not depend on the playback status: with or
\* without the backend, and whether or not set_volume fails, it records v as
\* the volume and leaves current_track, current_track_index, playing, paused,
\* the library and the view unchanged.
C24_VolumeIndependentOfPlayback ==
    [][ last'.op = "change_volume"
        => /\ volume' \in ScaleValues
           /\ UNCHANGED <<current_track, current_track_index, playing, paused,
                          music_library, filtered_library>> ]_vars

\* change_volume() has recorded a new volume without the backend while a
\* track was paused
C24_Witness ==
    /\ last.op = "change_volume"
    /\ ~audio_enabled
    /\ volume \in ScaleValues
    /\ last.status = "Paused"
    /\ paused /\ playing
    /\ last.track # None
    /\ current_track = last.track
    /\ current_track_index = last.index


\* C25: when the advance a monitor tick triggers fails in the backend, the
\* tick leaves the playback state (current_track, current_track_index,
\* status) as it found it.
C25_FailedTickLeavesPlaybackState ==
    (last.op = "update_loop" /\ last.failed # "")
        => /\ current_track = last.track
           /\ current_track_index = last.index
           /\ Status(Self) = last.status


\* C26: the monitor shuts down cleanly: once on_closing() has run, in every
\* playback status, the update thread eventually leaves its loop.
C26_MonitorStopsAfterTeardown ==
    (ui.pc = "closed") ~> (mon.pc = "dead")


\* C27: scan_folder on a root that does not exist is a no-op and no error: it
\* returns normally and leaves the library, the view and the playback state
\* (every field) as they were.
C27_ScanOfMissingRootIsNoOp ==
    \A folder_path \in Folders :
        ~folder_exists(folder_path)
            => scan_folder(Self, folder_path) = Call(Self, "scan_folder")

\* add_music_folder() has scanned a folder that does not exist while a track
\* of a non-empty library was playing
C27_Witness ==
    /\ last.op = "add_music_folder"
    /\ last.calls = <<"add_music_folder", "scan_folder">>
    /\ ~last.raised
    /\ music_library # << >>
    /\ filtered_library # music_library
    /\ last.track # None
    /\ current_track = last.track
    /\ current_track_index = last.index
    /\ playing

\* the text after the last dot of a file name, in lower case; empty when the
\* name has no dot
Extension(file_name) ==
    LET dots == {k \in 1..Len(file_name) : file_name[k] = "."}
    IN  IF dots = {} THEN << >>
        ELSE lower(SubSeq(file_name, (CHOOSE k \in dots : \A j \in dots : j <= k) + 1,
                          Len(file_name)))

AudioExtensions == { <<"m","p","3">>, <<"f","l","a","c">>, <<"o","g","g">>,
                     <<"m","4","a">>, <<"w","a","v">> }

\* the positions in a library at which the track of a file stands
PositionsOf(library, file) == {i \in 1..Len(library) : library[i] = file.path}

FileOf(path) == CHOOSE file \in {MusicDirFiles[k] : k \in 1..Len(MusicDirFiles)} :
                    file.path = path

\* the tags of a file give a value under one of two keys
Readable(file, primary, secondary) ==
    file.tags # << >> /\ (primary \in DOMAIN file.tags \/ secondary \in DOMAIN file.tags)

(***************************************************************************)
(* C29: every scanned track carries the fallback in each field that could  *)
(* not be read from its file: the file name without its extension as the   *)
(* title when the tags give no title (no tags at all, or tags without a    *)
(* title key), "Unknown Artist" and "Unknown Album" when they give no      *)
(* artist or album, and "0:00" when the file gives no duration.            *)
(***************************************************************************)
C29_FallbackForUnreadableFields ==
    \A i \in 1..Len(music_library) :
        path_exists(music_library[i]) =>
            LET file == FileOf(music_library[i])
                track == track_of(music_library[i])
            IN  /\ ~Readable(file, "TIT2", "TITLE") => track.title = splitext_stem(file.name)
                /\ ~Readable(file, "TPE1", "ARTIST") => track.artist = Unknown_Artist
                /\ ~Readable(file, "TALB", "ALBUM") => track.album = Unknown_Album
                /\ file.length = 0 => track.time = <<"0",":","0","0">>

\* d whole seconds as minutes, a colon and the seconds in two digits
MinutesAndSeconds(d) == str(d \div 60) \o <<":">> \o two_digits(d % 60)

(***************************************************************************)
(* C30: the duration text of every scanned track whose file gives a        *)
(* duration of d whole seconds is d div 60, not padded, a colon and        *)
(* d mod 60 in two digits: "3:35" for 215 seconds, and likewise for an     *)
(* hour or more.                                                           *)
(***************************************************************************)
C30_DurationIsMinutesAndSeconds ==
    \A i \in 1..Len(music_library) :
        (path_exists(music_library[i]) /\ FileOf(music_library[i]).length > 0)
            => track_of(music_library[i]).time
                   = MinutesAndSeconds(FileOf(music_library[i]).length)

\* the step just taken was an iteration of update_loop that called next_track
MonitorAdvanced == last.op = "update_loop" /\ Called("next_track")

(***************************************************************************)
(* C31: one natural end of track gives one advance: an iteration of        *)
(* update_loop that called next_track is not followed directly by another  *)
(* iteration that calls next_track, the track chosen by the first not      *)
(* having played and ended in between, also when that track failed to load *)
(* or was played in simulation because its file does not exist.            *)
(***************************************************************************)
C31_OneAdvancePerTrackEnd ==
    [][MonitorAdvanced => ~MonitorAdvanced']_vars

\* the main thread is in play_selected_track, the backend has started the
\* requested file (line 833) and the flags and the index are still to be set
UiStartedRequestedTrack ==
    /\ ui.op = "play_selected_track"
    /\ ui.pc \in {"pt_playing", "pt_paused"}
    /\ audio_enabled /\ path_exists(ui.track)

\* the monitor took the backend's answer while a file was loaded and not yet
\* started for an end of track, and has run next_track() up to its last
\* statement, which leaves current_track and current_track_index alone
MonitorAdvancedOnLoadedFile == mon.pc = "pt_paused" /\ mon.saw = "loaded"

(***************************************************************************)
(* C32: a play the user requested is not pre-empted by the monitor: when   *)
(* an iteration of update_loop falls in the window in which the backend    *)
(* has loaded the requested file and not yet started it, current_track is  *)
(* still the track the user requested once the monitor has made its        *)
(* writes; the statements that remain on both threads do not assign        *)
(* current_track, so this is its value when both have completed.           *)
(***************************************************************************)
C32_RequestedPlayNotPreempted ==
    (UiStartedRequestedTrack /\ MonitorAdvancedOnLoadedFile) => current_track = ui.track

\* the application is running, the status is Playing, the backend is enabled
\* and answers not busy, and the view holds a track
AdvanceDue ==
    /\ ui.pc # "closed"
    /\ audio_enabled /\ playing /\ ~paused
    /\ get_busy_values(mixer) = {FALSE}
    /\ filtered_library # << >>

(***************************************************************************)
(* C33: auto-advance is live: with the update thread scheduled fairly,     *)
(* whenever the status is Playing, the backend is enabled and not busy and *)
(* the view is not empty, the monitor eventually calls next_track(),       *)
(* unless that condition ceases to hold first; this at any point of the    *)
(* application's lifetime, whatever operations came before.                *)
(***************************************************************************)
C33_AutoAdvanceIsLive ==
    AdvanceDue ~> (MonitorInNextTrack \/ ~AdvanceDue)

(***************************************************************************)
(* C34: between operations, whenever a track is current and the view holds *)
(* it, current_track_index is a position of the view and the track at that *)
(* position is the current track (tracks are told apart by their path),    *)
(* after any sequence of play, toggle, stop, next, previous, search and    *)
(* scan operations, each run to its end.                                   *)
(***************************************************************************)
C34_IndexPointsAtCurrentTrack ==
    (current_track # None /\ PositionInView # -1)
        => /\ current_track_index \in 0..(ViewLen - 1)
           /\ At(filtered_library, current_track_index) = current_track

\* a search has moved the current track to another position of the view and
\* the index has followed it
C34_Witness ==
    /\ last.op = "on_search_change"
    /\ last.track # None /\ current_track = last.track
    /\ PositionInView # -1
    /\ last.index # -1 /\ current_track_index # last.index

\* the main thread is between two events, or has left the main loop
UiBetweenEvents == ui.pc \in {"idle", "closed"}

(***************************************************************************)
(* C35, as stated: the status bits encode Stopped, Playing or Paused in    *)
(* every state, the states between two statements of a handler included,   *)
(* which the update thread can observe: paused implies playing, with the   *)
(* backend and in simulation.                                              *)
(***************************************************************************)
C35_PausedImpliesPlaying ==
    paused => playing

(***************************************************************************)
(* C35, amended: whenever the main thread is not inside a handler, paused  *)
(* implies playing, with the backend and in simulation, and whatever the   *)
(* update thread has done or is doing in between.                          *)
(***************************************************************************)
C35_PausedImpliesPlayingBetweenEvents ==
    UiBetweenEvents => (paused => playing)

\* the status is Paused between two events while the update thread is in the
\* middle of an iteration
C35_Witness ==
    /\ ui.pc = "idle"
    /\ paused /\ playing
    /\ mon.pc = "mn_paused"

(***************************************************************************)
(* C36: a search change affects only the view: on_search_change leaves the *)
(* library, current_track, playing, paused and volume as they were, and    *)
(* current_track_index either keeps its value or becomes a position of the *)
(* new view at which the current track stands.                             *)
(***************************************************************************)
C36_SearchChangesOnlyTheView ==
    [][ (last'.op = "on_search_change")
        => ( /\ music_library' = music_library
             /\ current_track' = current_track
             /\ playing' = playing
             /\ paused' = paused
             /\ volume' = volume
             /\ \/ current_track_index' = current_track_index
                \/ /\ current_track # None
                   /\ current_track_index' \in 0..(Len(filtered_library') - 1)
                   /\ At(filtered_library', current_track_index') = current_track ) ]_vars

\* a search during Playing has dropped the current track from the view; the
\* track, the status and the index are as before
C36_Witness ==
    /\ last.op = "on_search_change"
    /\ last.status = "Playing" /\ Status(Self) = "Playing"
    /\ current_track # None /\ current_track = last.track
    /\ PositionInView = -1
    /\ current_track_index = last.index /\ current_track_index # -1
====
